---- MODULE Spec2Model ----
(***************************************************************************)
(* Road-matching core of the traffic viewer: the two RoadIndex classes     *)
(* (the grid index of trafficSystem.js and the RBush index of              *)
(* roadIndex.ts), fed the same calls side by side.                         *)
(*                                                                         *)
(* Numbers.  Coordinates are integers counting 1/11000 of a degree, so     *)
(* that the grid cell of 0.001 degree is 11 units and one unit is          *)
(* 111320/11000 = 10.12 m = 1012 cm.  Arithmetic is exact (rationals); the *)
(* rounding of IEEE doubles is not modelled.  A distance is carried as its *)
(* square, a rational <<n, d>> in units^2: the square root and the factor  *)
(* 111320 are strictly increasing, so every comparison the code makes on   *)
(* distances is the comparison of these squares, with a limit given in     *)
(* metres converted by the same factor.  Lengths in metres given by a      *)
(* caller (maxDistanceMeters) are integers counting centimetres.           *)
(*                                                                         *)
(* Specifications.  Spec: the calls of the two indexes.  SpecBuild:        *)
(* fromOSMWay alone, over ways with every kind of lanes and maxspeed tag.  *)
(* SpecSignals: SignalManager over the grid index.  SpecPci: PCIJoiner     *)
(* (joinToRoads, ensureAllRoadsHavePCI) over the roads of the index; the   *)
(* values of Math.random() are inputs of the fill.  SpecArrays: the arrays *)
(* getAllRoads hands out.  SpecAssociate: roads loaded, signals loaded and *)
(* added one by one.  SpecMetadata: the joiner on an index of two roads    *)
(* that is queried meanwhile.  SpecSelect: the clicks RoadSelector         *)
(* handles.  SpecPavement: invocations of updatePavementCondition of       *)
(* pavement-viewer.js, one step per await.                                 *)
(***************************************************************************)
EXTENDS Integers, Sequences, FiniteSets, TLC

VARIABLES roads, roadKeys, spatialGrid, spatialIndex, trafficData,
          signals, signalEntities, held, selector, pavement, ret

vars == <<roads, roadKeys, spatialGrid, spatialIndex, trafficData,
         signals, signalEntities, held, selector, pavement, ret>>

\* ------------------------------------------------------------ bounds
\* The coarse structures hold at most MaxEntries entries.
MaxEntries == 2
\* A bulk load takes at most MaxBatch elements.
MaxBatch == 2
\* signals a SignalManager holds at most
MaxSignals == 2
\* the most invocations of updatePavementCondition
MaxRequests == 3

\* --------------------------------------------------- program constants
\* this.gridSize = 0.001 degree, in units of 1/11000 degree
gridSize == 11
\* const searchRadius = 2
searchRadius == 2
\* minDistance * 111320 (metres per degree)
MetersPerDegree == 111320
\* findNearest(lon, lat, maxDistanceMeters = 30), in centimetres
DefaultMaxDistance == 3000
\* this.roadIndex.findNearest(element.lon, element.lat, 25), in centimetres
SignalRadius == 2500

\* const R = 6371000 of PCIJoiner.calculateDistance, in metres
EarthRadius == 6371000
\* findNearestPCI(lon, lat, 50) of joinToRoads, in centimetres
PciRadius == 5000
UnitsPerDegree == 1000 * gridSize
CmPerUnit == (MetersPerDegree * 100) \div UnitsPerDegree

\* A value that is a number, a string (a sequence of one-character strings),
\* null, undefined or NaN.
Num(n) == [t |-> "number", s |-> <<>>, n |-> n]
Str(s) == [t |-> "string", s |-> s, n |-> 0]
Null == [t |-> "null", s |-> <<>>, n |-> 0]
Undefined == [t |-> "undefined", s |-> <<>>, n |-> 0]
NaN == [t |-> "NaN", s |-> <<>>, n |-> 0]
True == [t |-> "boolean", s |-> <<>>, n |-> 1]

\* An absent result (null, undefined) is the empty sequence, a present one
\* the sequence of that one value.
Absent == <<>>
Present(v) == <<v>>

\* ------------------------------------------------------------ arithmetic
\* Sign of a/b - c/d for a, c >= 0 and b, d > 0, by Euclid's algorithm
\* (no product of the four numbers is formed).
RECURSIVE RatCmp(_, _, _, _)
RatCmp(a, b, c, d) ==
    LET q1 == a \div b
        q2 == c \div d
        r1 == a % b
        r2 == c % d
    IN  IF q1 < q2 THEN -1
        ELSE IF q1 > q2 THEN 1
        ELSE IF r1 = 0 /\ r2 = 0 THEN 0
        ELSE IF r1 = 0 THEN -1
        ELSE IF r2 = 0 THEN 1
        ELSE -RatCmp(b, r1, d, r2)

\* Infinity as a distance
Infinity == <<1, 0>>
IsInf(q) == q[2] = 0

\* q1 < q2 on distances (Infinity is less than nothing, not even itself)
DistLess(q1, q2) ==
    IF IsInf(q1) THEN FALSE
    ELSE IF IsInf(q2) THEN TRUE
    ELSE RatCmp(q1[1], q1[2], q2[1], q2[2]) < 0

DistEq(q1, q2) ==
    IF IsInf(q1) \/ IsInf(q2) THEN IsInf(q1) /\ IsInf(q2)
    ELSE RatCmp(q1[1], q1[2], q2[1], q2[2]) = 0

\* Math.min(minDistance, distance)
DistMin(q1, q2) == IF DistLess(q2, q1) THEN q2 ELSE q1

\* A limit of cm centimetres as a distance: the d with d * 111320 m = cm.
MetersLimit(cm) == <<cm * cm, CmPerUnit * CmPerUnit>>

\* ------------------------------------------------------------ geometry
\* pointToLineDistance(px, py, x1, y1, x2, y2): the squared distance from
\* (px, py) to the segment, the projection parameter clamped to [0, 1].
pointToLineDistance(px, py, x1, y1, x2, y2) ==
    LET A == px - x1
        B == py - y1
        C == x2 - x1
        D == y2 - y1
        dot == A * C + B * D
        lenSq == C * C + D * D
    IN  IF lenSq = 0 THEN <<A * A + B * B, 1>>
        ELSE IF dot <= 0 THEN <<A * A + B * B, 1>>                  \* param = 0
        ELSE IF dot >= lenSq
             THEN <<(px - x2) * (px - x2) + (py - y2) * (py - y2), 1>>  \* param = 1
        ELSE <<(A * D - B * C) * (A * D - B * C), lenSq>>

\* for (let i = 0; i < positions.length - 2; i += 2): positions[i] of the
\* source is positions[i + 1] here.
RECURSIVE distanceLoop(_, _, _, _, _)
distanceLoop(lon, lat, positions, i, minDistance) ==
    IF i < Len(positions) - 2
    THEN distanceLoop(lon, lat, positions, i + 2,
             DistMin(minDistance,
                 pointToLineDistance(lon, lat, positions[i + 1], positions[i + 2],
                                     positions[i + 3], positions[i + 4])))
    ELSE minDistance

distanceToRoad(lon, lat, road) == distanceLoop(lon, lat, road.positions, 0, Infinity)

\* ------------------------------------------------------------ strings
Digits == {"0", "1", "2", "3", "4", "5", "6", "7", "8", "9"}
DigitVal(c) == CASE c = "0" -> 0 [] c = "1" -> 1 [] c = "2" -> 2 [] c = "3" -> 3
                 [] c = "4" -> 4 [] c = "5" -> 5 [] c = "6" -> 6 [] c = "7" -> 7
                 [] c = "8" -> 8 [] c = "9" -> 9

RECURSIVE DigitRun(_, _, _)
\* the value of the digits of s from position i on, up to the first non-digit
DigitRun(s, i, acc) ==
    IF i <= Len(s) /\ s[i] \in Digits
    THEN DigitRun(s, i + 1, acc * 10 + DigitVal(s[i]))
    ELSE acc

RECURSIVE SkipSpaces(_, _)
SkipSpaces(s, i) == IF i <= Len(s) /\ s[i] = " " THEN SkipSpaces(s, i + 1) ELSE i

\* parseInt(v) of a string: leading white space, an optional sign, then decimal
\* digits; NaN when no digit follows.  A number is converted to its decimal
\* string first, so parseInt of an integer is that integer.
parseInt(v) ==
    IF v.t = "number" THEN v
    ELSE IF v.t # "string" THEN NaN
    ELSE LET i == SkipSpaces(v.s, 1)
             neg == i <= Len(v.s) /\ v.s[i] = "-"
             j == IF i <= Len(v.s) /\ v.s[i] \in {"-", "+"} THEN i + 1 ELSE i
         IN  IF j <= Len(v.s) /\ v.s[j] \in Digits
             THEN Num((IF neg THEN -1 ELSE 1) * DigitRun(v.s, j, 0))
             ELSE NaN

\* v.replace(/[^0-9]/g, "") of a string
StripNonDigits(v) == Str(SelectSeq(v.s, LAMBDA c : c \in Digits))

\* truthiness: undefined, null, NaN, "" and 0 are falsy
Truthy(v) ==
    CASE v.t = "number" -> v.n # 0
      [] v.t = "string" -> v.s # <<>>
      [] OTHER -> FALSE

\* tags.k of a tag mapping
Tag(tags, k) == IF k \in DOMAIN tags THEN tags[k] ELSE Undefined

\* a || b
OrElse(a, b) == IF Truthy(a) THEN a ELSE b

\* ------------------------------------------------------------ fromOSMWay
Min(S) == CHOOSE x \in S : \A y \in S : x <= y
Max(S) == CHOOSE x \in S : \A y \in S : x >= y

\* `osm_way_${way.id}`
OsmId(n) == <<"osm_way", n>>

\* `Unnamed ${tags.highway || "road"}`
Unnamed(highway) == Str(<<"Unnamed ">> \o OrElse(highway, Str(<<"road">>)).s)

\* positions.push(point.lon, point.lat) for every point of the geometry
FlatPositions(geometry) ==
    [i \in 1..(2 * Len(geometry)) |->
        IF i % 2 = 1 THEN geometry[(i + 1) \div 2].lon ELSE geometry[i \div 2].lat]

\* way.tags || {}
TagsOf(way) == IF "tags" \in DOMAIN way THEN way.tags ELSE <<>>

\* if (!way.geometry || way.geometry.length < 2) throw new Error(...);
\* tags.maxspeed.replace of a truthy value that is no string is a TypeError.
fromOSMWayThrows(way) ==
    \/ "geometry" \notin DOMAIN way
    \/ Len(way.geometry) < 2
    \/ /\ Truthy(Tag(TagsOf(way), "maxspeed"))
       /\ Tag(TagsOf(way), "maxspeed").t # "string"

\* fromOSMWay with the bbox of the first and the last point only
fromOSMWayBboxOfEnds(way) ==
    LET positions == FlatPositions(way.geometry)
        lons == {way.geometry[i].lon : i \in {1, Len(way.geometry)}}
        lats == {way.geometry[i].lat : i \in {1, Len(way.geometry)}}
        midIdx == (Len(positions) \div 4) * 2
        tags == TagsOf(way)
    IN  [id |-> OsmId(way.id),
         name |-> OrElse(Tag(tags, "name"),
                         OrElse(Tag(tags, "ref"), Unnamed(Tag(tags, "highway")))),
         kind |-> OrElse(Tag(tags, "highway"), Str(<<"unknown">>)),
         positions |-> positions,
         bbox |-> <<Min(lons), Min(lats), Max(lons), Max(lats)>>,
         midpoint |-> <<positions[midIdx + 1], positions[midIdx + 2]>>,
         metadata |->
            [lanes |-> IF Truthy(Tag(tags, "lanes"))
                       THEN parseInt(Tag(tags, "lanes")) ELSE Undefined,
             maxspeed |-> IF Truthy(Tag(tags, "maxspeed"))
                          THEN parseInt(StripNonDigits(Tag(tags, "maxspeed")))
                          ELSE Undefined,
             surface |-> Tag(tags, "surface"),
             pci |-> Null]]

\* fromOSMWay with the midpoint read at half the length of positions
fromOSMWayMidOfHalf(way) ==
    LET positions == FlatPositions(way.geometry)
        lons == {way.geometry[i].lon : i \in 1..Len(way.geometry)}
        lats == {way.geometry[i].lat : i \in 1..Len(way.geometry)}
        midIdx == Len(positions) \div 2 - 1
        tags == TagsOf(way)
    IN  [id |-> OsmId(way.id),
         name |-> OrElse(Tag(tags, "name"),
                         OrElse(Tag(tags, "ref"), Unnamed(Tag(tags, "highway")))),
         kind |-> OrElse(Tag(tags, "highway"), Str(<<"unknown">>)),
         positions |-> positions,
         bbox |-> <<Min(lons), Min(lats), Max(lons), Max(lats)>>,
         midpoint |-> <<positions[midIdx + 1], positions[midIdx + 2]>>,
         metadata |->
            [lanes |-> IF Truthy(Tag(tags, "lanes"))
                       THEN parseInt(Tag(tags, "lanes")) ELSE Undefined,
             maxspeed |-> IF Truthy(Tag(tags, "maxspeed"))
                          THEN parseInt(StripNonDigits(Tag(tags, "maxspeed")))
                          ELSE Undefined,
             surface |-> Tag(tags, "surface"),
             pci |-> Null]]

\* The RoadSegment fromOSMWay returns (trafficSystem.js).  `length` (a sum of
\* haversine terms) and `cesiumPositions` (rendering) are left out.
fromOSMWay(way) ==
    LET positions == FlatPositions(way.geometry)
        lons == {way.geometry[i].lon : i \in 1..Len(way.geometry)}
        lats == {way.geometry[i].lat : i \in 1..Len(way.geometry)}
        midIdx == (Len(positions) \div 4) * 2
        tags == TagsOf(way)
    IN  [id |-> OsmId(way.id),
         name |-> OrElse(Tag(tags, "name"),
                         OrElse(Tag(tags, "ref"), Unnamed(Tag(tags, "highway")))),
         kind |-> OrElse(Tag(tags, "highway"), Str(<<"unknown">>)),
         positions |-> positions,
         bbox |-> <<Min(lons), Min(lats), Max(lons), Max(lats)>>,
         midpoint |-> <<positions[midIdx + 1], positions[midIdx + 2]>>,
         metadata |->
            [lanes |-> IF Truthy(Tag(tags, "lanes"))
                       THEN parseInt(Tag(tags, "lanes")) ELSE Undefined,
             maxspeed |-> IF Truthy(Tag(tags, "maxspeed"))
                          THEN parseInt(StripNonDigits(Tag(tags, "maxspeed")))
                          ELSE Undefined,
             surface |-> Tag(tags, "surface"),
             pci |-> Null]]

\* The RoadSegment fromOSMWay of roadIndex.ts returns: the same but for the
\* metadata, which has no pci key.
fromOSMWayTs(way) ==
    LET road == fromOSMWay(way)
    IN  [road EXCEPT !.metadata = [lanes |-> road.metadata.lanes,
                                   maxspeed |-> road.metadata.maxspeed,
                                   surface |-> road.metadata.surface]]

\* ------------------------------------------------------------ inputs
Pt(x, y) == [lon |-> x, lat |-> y]

\* The elements a caller hands in: two roads 4 units (40.48 m) apart either
\* side of the line lat = 0, a long road, a three-point road reusing id 1, a
\* way of one point, a way whose maxspeed tag is the number 35, and a node.
WayA ==
    [type |-> "way", id |-> 1,
     tags |-> [highway |-> Str(<<"primary">>), name |-> Str(<<"A">>),
               lanes |-> Str(<<"2">>), maxspeed |-> Str(<<"3", "5", " ", "m", "p", "h">>)],
     geometry |-> <<Pt(0, 2), Pt(8, 2)>>]
WayB ==
    [type |-> "way", id |-> 2,
     tags |-> [highway |-> Str(<<"residential">>)],
     geometry |-> <<Pt(0, -2), Pt(8, -2)>>]
WayLong ==
    [type |-> "way", id |-> 3,
     tags |-> [highway |-> Str(<<"trunk">>), ref |-> Str(<<"L">>)],
     geometry |-> <<Pt(3, 0), Pt(40, 0)>>]
WayBend ==
    [type |-> "way", id |-> 1,
     tags |-> [highway |-> Str(<<"service">>)],
     geometry |-> <<Pt(-6, 5), Pt(-2, 9), Pt(-2, 14)>>]
WayOne ==
    [type |-> "way", id |-> 4,
     tags |-> [highway |-> Str(<<"service">>)],
     geometry |-> <<Pt(1, 1)>>]
WaySpeedNum ==
    [type |-> "way", id |-> 5,
     tags |-> [highway |-> Str(<<"service">>), maxspeed |-> Num(35)],
     geometry |-> <<Pt(0, 6), Pt(8, 6)>>]
NodeSig ==
    [type |-> "node", id |-> 6,
     tags |-> [highway |-> Str(<<"traffic_signals">>)],
     lon |-> 4, lat |-> 0]

GoodWays == {WayA, WayB, WayLong, WayBend}
Elements == {WayA, WayB, WayOne, WaySpeedNum, NodeSig}

\* the segments a caller passes to addRoad
Segments == {fromOSMWay(w) : w \in GoodWays}
\* the ids asked for with getRoad (no road ever has id 4)
RoadIds == {OsmId(1), OsmId(2), OsmId(4)}
\* the ids traffic metrics are set for
TrafficIds == {OsmId(1), OsmId(4)}

\* The queries <<lon, lat, maxDistanceMeters>>, the limit in centimetres:
\* a point 2 units from A and from B, with limits of 25 m and of exactly
\* 2 units; a point 1 unit from A and 3 from B; a point near the far end of
\* the long road; one beside the diagonal of the bend; one near nothing.
Queries ==
    {<<4, 0, SignalRadius>>, <<4, 0, 2 * CmPerUnit>>, <<4, 1, DefaultMaxDistance>>,
     <<38, 0, DefaultMaxDistance>>, <<-4, 8, SignalRadius>>, <<20, 20, SignalRadius>>}

Metrics ==
    {[currentVolume |-> 900, level |-> "HEAVY", signalCount |-> 0],
     [currentVolume |-> 100, level |-> "LIGHT", signalCount |-> 1]}

\* ------------------------------------------------------------ maps
\* Map.set(k, v)
MapSet(m, k, v) == [x \in DOMAIN m \cup {k} |-> IF x = k THEN v ELSE m[x]]
\* Map.get(k): undefined when the key is absent
MapGet(m, k) == IF k \in DOMAIN m THEN Present(m[k]) ELSE Absent
\* the keys of a Map in insertion order: a key set again keeps its place
KeysSet(keys, k) ==
    IF \E i \in 1..Len(keys) : keys[i] = k THEN keys ELSE Append(keys, k)

\* ------------------------------------------------------------ RBush
\* The tree of the rbush package, of which the repository holds the type
\* declarations only.  With at most 9 entries (rbush's default node size) the
\* tree is one leaf, its items in insertion order.
RBushInsert(tree, item) == Append(tree, item)

\* the search box b is in 1/CmPerUnit of a unit, the items are in units
RBushIntersects(b, item) ==
    /\ item.minX * CmPerUnit <= b.maxX
    /\ item.minY * CmPerUnit <= b.maxY
    /\ item.maxX * CmPerUnit >= b.minX
    /\ item.maxY * CmPerUnit >= b.minY

RBushSearch(tree, b) == SelectSeq(tree, LAMBDA item : RBushIntersects(b, item))

RBushAll(tree) == tree

\* ------------------------------------------------------------ the index
\* An index object: the fields of both classes.  `roads` and `trafficData`
\* are written by the same statements in both, `spatialGrid` is the grid of
\* trafficSystem.js and `spatialIndex` the tree of roadIndex.ts.
\* getGridKey(lon, lat): `${gridX},${gridY}` as the pair of the two numbers
getGridKey(lon, lat) == <<lon \div gridSize, lat \div gridSize>>

\* this.spatialGrid of addRoad: the id pushed onto the cell of the midpoint
gridAdd(grid, road) ==
    LET gridKey == getGridKey(road.midpoint[1], road.midpoint[2])
        cell == IF gridKey \in DOMAIN grid THEN grid[gridKey] ELSE <<>>
    IN  MapSet(grid, gridKey, Append(cell, road.id))

\* this.spatialIndex of addRoad: the bbox inserted under the road's id
treeAdd(tree, segment) ==
    RBushInsert(tree, [minX |-> segment.bbox[1], minY |-> segment.bbox[2],
                       maxX |-> segment.bbox[3], maxY |-> segment.bbox[4],
                       roadId |-> segment.id])

\* addRoad(road) of both classes
addRoad(idx, road) ==
    [roads |-> MapSet(idx.roads, road.id, road),
     roadKeys |-> KeysSet(idx.roadKeys, road.id),
     spatialGrid |-> gridAdd(idx.spatialGrid, road),
     spatialIndex |-> treeAdd(idx.spatialIndex, road)]

\* ------------------------------------------------------------ findNearest
\* the 25 cells around the query cell, dx outer and dy inner, -2..2 each
CellOffsets ==
    LET n == 2 * searchRadius + 1
    IN  [i \in 1..(n * n) |-> <<((i - 1) \div n) - searchRadius,
                                ((i - 1) % n) - searchRadius>>]

RECURSIVE gridCandidates(_, _, _, _)
\* the ids of the cells scanned, cell after cell
gridCandidates(grid, cx, cy, i) ==
    IF i > Len(CellOffsets) THEN <<>>
    ELSE LET gridKey == <<cx + CellOffsets[i][1], cy + CellOffsets[i][2]>>
             cellRoads == IF gridKey \in DOMAIN grid THEN grid[gridKey] ELSE <<>>
         IN  cellRoads \o gridCandidates(grid, cx, cy, i + 1)

RECURSIVE nearestLoopNonStrict(_, _, _, _, _, _, _)
\* nearestLoop with `distance <= nearestDistance`
nearestLoopNonStrict(roadMap, ids, i, lon, lat, nearestRoad, nearestDistance) ==
    IF i > Len(ids) THEN nearestRoad
    ELSE IF ids[i] \notin DOMAIN roadMap
         THEN nearestLoopNonStrict(roadMap, ids, i + 1, lon, lat, nearestRoad,
                                   nearestDistance)
    ELSE LET road == roadMap[ids[i]]
             distance == distanceToRoad(lon, lat, road)
         IN  IF ~DistLess(nearestDistance, distance)
             THEN nearestLoopNonStrict(roadMap, ids, i + 1, lon, lat, Present(road),
                                       distance)
             ELSE nearestLoopNonStrict(roadMap, ids, i + 1, lon, lat, nearestRoad,
                                       nearestDistance)

RECURSIVE nearestLoop(_, _, _, _, _, _, _)
\* for (const road of candidates): if (!road) continue; the strict comparison
\* keeps the first of two candidates at the same distance
nearestLoop(roadMap, ids, i, lon, lat, nearestRoad, nearestDistance) ==
    IF i > Len(ids) THEN nearestRoad
    ELSE IF ids[i] \notin DOMAIN roadMap
         THEN nearestLoop(roadMap, ids, i + 1, lon, lat, nearestRoad, nearestDistance)
    ELSE LET road == roadMap[ids[i]]
             distance == distanceToRoad(lon, lat, road)
         IN  IF DistLess(distance, nearestDistance)
             THEN nearestLoop(roadMap, ids, i + 1, lon, lat, Present(road), distance)
             ELSE nearestLoop(roadMap, ids, i + 1, lon, lat, nearestRoad, nearestDistance)

\* findNearest of trafficSystem.js (grid)
findNearestGrid(idx, lon, lat, maxDistanceMeters) ==
    LET candidates == gridCandidates(idx.spatialGrid, lon \div gridSize,
                                     lat \div gridSize, 1)
    IN  IF Len(candidates) = 0 THEN Absent
        ELSE nearestLoop(idx.roads, candidates, 1, lon, lat, Absent,
                         MetersLimit(maxDistanceMeters))

\* findNearestTree with `let nearestDistance = Infinity`
findNearestTreeNoLimit(idx, lon, lat, maxDistanceMeters) ==
    LET candidates == RBushAll(idx.spatialIndex)
    IN  IF Len(candidates) = 0 THEN Absent
        ELSE nearestLoop(idx.roads,
                         [i \in 1..Len(candidates) |-> candidates[i].roadId],
                         1, lon, lat, Absent, Infinity)

\* findNearest of roadIndex.ts (RBush).  maxDistanceDeg = maxDistanceMeters /
\* 111320 is maxDistanceMeters / CmPerUnit units, so the search box is written
\* in 1/CmPerUnit of a unit: lon * CmPerUnit -+ maxDistanceMeters.
findNearestTree(idx, lon, lat, maxDistanceMeters) ==
    LET searchBbox == [minX |-> lon * CmPerUnit - maxDistanceMeters,
                       minY |-> lat * CmPerUnit - maxDistanceMeters,
                       maxX |-> lon * CmPerUnit + maxDistanceMeters,
                       maxY |-> lat * CmPerUnit + maxDistanceMeters]
        candidates == RBushSearch(idx.spatialIndex, searchBbox)
    IN  IF Len(candidates) = 0 THEN Absent
        ELSE nearestLoop(idx.roads,
                         [i \in 1..Len(candidates) |-> candidates[i].roadId],
                         1, lon, lat, Absent, MetersLimit(maxDistanceMeters))

\* findNearest with coordinates given as values, so that NaN can be passed.
\* With lon or lat NaN, Math.floor(NaN / gridSize) is NaN and every key
\* searched, `${NaN + dx},${NaN + dy}`, has NaN for that coordinate; the grid
\* has such a cell only for a road with a NaN midpoint, of which there is
\* none here, so there are no candidates and the result is null.  Nothing
\* on the way throws.
findNearestGridAt(idx, lon, lat, maxDistanceMeters) ==
    IF lon = NaN \/ lat = NaN
    THEN [threw |-> FALSE, value |-> Absent]
    ELSE [threw |-> FALSE,
          value |-> findNearestGrid(idx, lon.n, lat.n, maxDistanceMeters)]

\* The same of roadIndex.ts: the search box has NaN bounds, every comparison
\* of a bound with NaN is false, so no item intersects it and
\* `candidates.length === 0` returns null.
findNearestTreeAt(idx, lon, lat, maxDistanceMeters) ==
    IF lon = NaN \/ lat = NaN
    THEN [threw |-> FALSE, value |-> Absent]
    ELSE [threw |-> FALSE,
          value |-> findNearestTree(idx, lon.n, lat.n, maxDistanceMeters)]

\* ------------------------------------------------------------ loadFromOSM
\* element.type === "way" && element.tags?.highway && element.geometry
IsRoadElement(element) ==
    /\ element.type = "way"
    /\ "tags" \in DOMAIN element
    /\ Truthy(Tag(element.tags, "highway"))
    /\ "geometry" \in DOMAIN element

RECURSIVE loadLoopAbort(_, _, _, _)
\* a loop without the try/catch: the first way fromOSMWay throws on ends it
loadLoopAbort(idx, elements, i, roadCount) ==
    IF i > Len(elements) THEN <<idx, roadCount>>
    ELSE IF IsRoadElement(elements[i]) /\ fromOSMWayThrows(elements[i])
         THEN <<idx, roadCount>>
    ELSE IF IsRoadElement(elements[i])
         THEN loadLoopAbort(addRoad(idx, fromOSMWay(elements[i])), elements,
                            i + 1, roadCount + 1)
    ELSE loadLoopAbort(idx, elements, i + 1, roadCount)

RECURSIVE loadLoop(_, _, _, _)
\* the loop of loadFromOSM: a way fromOSMWay throws on is caught and warned
\* about; <<index, roadCount>> at the end
loadLoop(idx, elements, i, roadCount) ==
    IF i > Len(elements) THEN <<idx, roadCount>>
    ELSE IF IsRoadElement(elements[i]) /\ ~fromOSMWayThrows(elements[i])
         THEN loadLoop(addRoad(idx, fromOSMWay(elements[i])), elements, i + 1,
                       roadCount + 1)
    ELSE loadLoop(idx, elements, i + 1, roadCount)

\* What loadFromOSM hands back to its caller, as a record of what it holds:
\* trafficSystem.js returns roadCount, roadIndex.ts returns nothing.
loadReturnJs(roadCount) == [roadCount |-> roadCount]
loadReturnTs(roadCount) == <<>>

\* ------------------------------------------------------------ getters
\* getRoad(id): this.roads.get(id) (undefined when absent); roadIndex.ts
\* turns undefined into null.  Both are the absent value here.
getRoad(idx, id) == MapGet(idx.roads, id)

\* getTrafficData(roadId)
getTrafficData(traffic, roadId) == MapGet(traffic, roadId)

\* setTrafficData that keeps the first snapshot of a road
setTrafficDataKeepFirst(traffic, roadId, metrics) ==
    IF roadId \in DOMAIN traffic THEN traffic ELSE MapSet(traffic, roadId, metrics)

\* setTrafficData(roadId, metrics)
setTrafficData(traffic, roadId, metrics) == MapSet(traffic, roadId, metrics)

\* getStats() of roadIndex.ts; trafficSystem.js returns no indexSize
getStats(idx, traffic) ==
    [roadCount |-> Cardinality(DOMAIN idx.roads),
     indexSize |-> Len(RBushAll(idx.spatialIndex)),
     trafficDataCount |-> Cardinality(DOMAIN traffic)]

\* ------------------------------------------------------------ state machine
Index == [roads |-> roads, roadKeys |-> roadKeys, spatialGrid |-> spatialGrid,
          spatialIndex |-> spatialIndex]

SetIndex(idx) ==
    /\ roads' = idx.roads
    /\ roadKeys' = idx.roadKeys
    /\ spatialGrid' = idx.spatialGrid
    /\ spatialIndex' = idx.spatialIndex

\* what the callers of the index and the two views hold at first: no array
\* of roads, a RoadSelector as its constructor leaves it, and the pavement
\* viewer before any analysis.  The selector refers to its selected entity by
\* its place in the entities of the viewer (0 for null); notified is what it
\* has handed to onRoadSelected during the last click, last the value of its
\* latest notification, if there was one.
NoArray == <<>>
NewRoadSelector ==
    [selectedRoad |-> Absent, selectedEntity |-> 0, entities |-> <<>>,
     notified |-> <<>>, last |-> <<>>]
NewPavementViewer == [loading |-> "none", pciValue |-> <<>>, requests |-> <<>>]

Init ==
    /\ roads = <<>>
    /\ roadKeys = <<>>
    /\ spatialGrid = <<>>
    /\ spatialIndex = <<>>
    /\ trafficData = <<>>
    /\ signals = <<>>
    /\ signalEntities = <<>>
    /\ held = NoArray
    /\ selector = NewRoadSelector
    /\ pavement = NewPavementViewer
    /\ ret = [op |-> "new"]

Batches == UNION {[1..n -> Elements] : n \in 1..MaxBatch}

AddRoad ==
    \E road \in Segments :
        /\ Len(spatialIndex) < MaxEntries
        /\ SetIndex(addRoad(Index, road))
        /\ ret' = [op |-> "addRoad", id |-> road.id]
        /\ UNCHANGED <<trafficData, signals, signalEntities,
                   held, selector, pavement>>

LoadFromOSM ==
    \E elements \in Batches :
        /\ Len(spatialIndex) + Len(elements) <= MaxEntries
        /\ LET done == loadLoop(Index, elements, 1, 0)
           IN  /\ SetIndex(done[1])
               /\ ret' = [op |-> "loadFromOSM", elements |-> elements,
                          js |-> loadReturnJs(done[2]),
                          ts |-> loadReturnTs(done[2])]
        /\ UNCHANGED <<trafficData, signals, signalEntities,
                   held, selector, pavement>>

FindNearest ==
    \E q \in Queries :
        /\ ret' = [op |-> "findNearest", lon |-> q[1], lat |-> q[2],
                   maxDistanceMeters |-> q[3],
                   grid |-> findNearestGrid(Index, q[1], q[2], q[3]),
                   tree |-> findNearestTree(Index, q[1], q[2], q[3])]
        /\ UNCHANGED <<roads, roadKeys, spatialGrid, spatialIndex, trafficData,
                       signals, signalEntities,
                   held, selector, pavement>>

\* findNearest called with a coordinate that is NaN
MalformedQueries ==
    {<<NaN, Num(0), SignalRadius>>, <<Num(4), NaN, DefaultMaxDistance>>}

FindNearestMalformed ==
    \E q \in MalformedQueries :
        /\ ret' = [op |-> "findNearestMalformed", lon |-> q[1], lat |-> q[2],
                   maxDistanceMeters |-> q[3],
                   grid |-> findNearestGridAt(Index, q[1], q[2], q[3]),
                   tree |-> findNearestTreeAt(Index, q[1], q[2], q[3])]
        /\ UNCHANGED <<roads, roadKeys, spatialGrid, spatialIndex, trafficData,
                       signals, signalEntities, held, selector, pavement>>

GetRoad ==
    \E id \in RoadIds :
        /\ ret' = [op |-> "getRoad", id |-> id, value |-> getRoad(Index, id)]
        /\ UNCHANGED <<roads, roadKeys, spatialGrid, spatialIndex, trafficData,
                       signals, signalEntities,
                   held, selector, pavement>>

SetTrafficData ==
    \E roadId \in TrafficIds, metrics \in Metrics :
        /\ trafficData' = setTrafficData(trafficData, roadId, metrics)
        /\ ret' = [op |-> "setTrafficData", roadId |-> roadId, metrics |-> metrics]
        /\ UNCHANGED <<roads, roadKeys, spatialGrid, spatialIndex,
                       signals, signalEntities,
                   held, selector, pavement>>

GetTrafficData ==
    \E roadId \in TrafficIds :
        /\ ret' = [op |-> "getTrafficData", roadId |-> roadId,
                   value |-> getTrafficData(trafficData, roadId)]
        /\ UNCHANGED <<roads, roadKeys, spatialGrid, spatialIndex, trafficData,
                       signals, signalEntities,
                   held, selector, pavement>>

GetStats ==
    /\ ret' = [op |-> "getStats", value |-> getStats(Index, trafficData)]
    /\ UNCHANGED <<roads, roadKeys, spatialGrid, spatialIndex, trafficData,
                       signals, signalEntities,
                   held, selector, pavement>>

Next ==
    \/ AddRoad
    \/ LoadFromOSM
    \/ FindNearest
    \/ FindNearestMalformed
    \/ GetRoad
    \/ SetTrafficData
    \/ GetTrafficData
    \/ GetStats

Spec == Init /\ [][Next]_vars

\* ------------------------------------------------------------ fromOSMWay alone
\* The ways segment construction is applied to: a geometry of 1 to 5
\* points, and for lanes and for maxspeed no tag, a number with or without a
\* unit, a word, the empty string, and a number that is no string.
TagValues(k) ==
    IF k = "lanes"
    THEN {Undefined, Str(<<"2">>), Str(<<"a", "b", "c">>), Str(<<>>), Num(2)}
    ELSE {Undefined, Str(<<"3", "5", " ", "m", "p", "h">>),
          Str(<<"w", "a", "l", "k">>), Str(<<>>), Num(35)}
Geometries ==
    {<<Pt(1, 1)>>, <<Pt(0, 2), Pt(8, 2)>>, <<Pt(-6, 5), Pt(-2, 9), Pt(-2, 14)>>,
     <<Pt(5, 5), Pt(3, 7), Pt(1, -1), Pt(9, 0)>>,
     <<Pt(4, -3), Pt(2, -3), Pt(0, 6), Pt(-5, 1), Pt(-7, 2)>>}
WithTag(tags, k, v) == IF v = Undefined THEN tags ELSE MapSet(tags, k, v)
BuildWays ==
    {[type |-> "way", id |-> 7,
      tags |-> WithTag(WithTag([highway |-> Str(<<"service">>)], "lanes", l),
                       "maxspeed", m),
      geometry |-> g] : l \in TagValues("lanes"), m \in TagValues("maxspeed"),
                        g \in Geometries}

InitBuild ==
    /\ roads = <<>>
    /\ roadKeys = <<>>
    /\ spatialGrid = <<>>
    /\ spatialIndex = <<>>
    /\ trafficData = <<>>
    /\ signals = <<>>
    /\ signalEntities = <<>>
    /\ held = NoArray
    /\ selector = NewRoadSelector
    /\ pavement = NewPavementViewer
    /\ \E way \in BuildWays : ret = [op |-> "way", way |-> way]

\* RoadIndex.fromOSMWay(way) of either class: what it returns, or that it
\* threw
FromOSMWay ==
    /\ ret.op = "way"
    /\ ret' = [op |-> "fromOSMWay", way |-> ret.way,
               threw |-> fromOSMWayThrows(ret.way),
               js |-> IF fromOSMWayThrows(ret.way) THEN Absent
                      ELSE Present(fromOSMWay(ret.way)),
               ts |-> IF fromOSMWayThrows(ret.way) THEN Absent
                      ELSE Present(fromOSMWayTs(ret.way))]
    /\ UNCHANGED <<roads, roadKeys, spatialGrid, spatialIndex, trafficData,
                   signals, signalEntities,
                   held, selector, pavement>>

NextBuild == FromOSMWay

SpecBuild == InitBuild /\ [][NextBuild]_vars

\* ------------------------------------------------------------ SignalManager
\* `signal_${lon}_${lat}`
SignalId(lon, lat) == <<"signal", lon, lat>>

SignalManager == [signals |-> signals, signalEntities |-> signalEntities]

\* an entity collection that takes a second entity of an id it holds
addSignalNeverThrows(mgr, lon, lat) == FALSE

\* this.viewer.entities.add({id: signalId, ...}): the entity collection of
\* the viewer (Cesium) refuses a second entity of an id it holds and throws.
\* Of the signal ids it holds exactly those SignalManager has added, the
\* keys of signalEntities.
addSignalThrows(mgr, lon, lat) == SignalId(lon, lat) \in DOMAIN mgr.signalEntities

\* addSignal that leaves the signal without a road
addSignalUnassociated(mgr, lon, lat, nearestRoad) ==
    LET signalId == SignalId(lon, lat)
        entity == [id |-> signalId, type |-> "traffic_signal",
                   roadId |-> Absent, roadName |-> Str(<<"Unknown">>),
                   lon |-> lon, lat |-> lat]
        signal == [id |-> signalId, lon |-> lon, lat |-> lat,
                   roadId |-> Absent, roadName |-> Str(<<"Unknown">>),
                   entity |-> entity]
    IN  [signals |-> Append(mgr.signals, signal),
         signalEntities |-> MapSet(mgr.signalEntities, signalId, entity)]

\* addSignal(lon, lat, nearestRoad); nearestRoad is Present(road) or Absent,
\* and so is the roadId of the signal (null is the absent value)
addSignal(mgr, lon, lat, nearestRoad) ==
    LET signalId == SignalId(lon, lat)
        roadId == IF nearestRoad # Absent THEN Present(nearestRoad[1].id)
                  ELSE Absent
        roadName == IF nearestRoad # Absent THEN nearestRoad[1].name
                    ELSE Str(<<"Unknown">>)
        entity == [id |-> signalId, type |-> "traffic_signal",
                   roadId |-> roadId, roadName |-> roadName,
                   lon |-> lon, lat |-> lat]
        signal == [id |-> signalId, lon |-> lon, lat |-> lat,
                   roadId |-> roadId, roadName |-> roadName, entity |-> entity]
    IN  [signals |-> Append(mgr.signals, signal),
         signalEntities |-> MapSet(mgr.signalEntities, signalId, entity)]

\* element.type === "node" && element.tags?.highway === "traffic_signals"
IsSignalElement(element) ==
    /\ element.type = "node"
    /\ "tags" \in DOMAIN element
    /\ Tag(element.tags, "highway") = Str(<<"traffic_signals">>)

RECURSIVE signalLoop(_, _, _, _, _)
\* the loop of SignalManager.loadFromOSM: a signal with a road within 25 m
\* is added and counted, one without is warned about; an exception of
\* addSignal ends the loop
signalLoop(mgr, idx, elements, i, signalCount) ==
    IF i > Len(elements)
    THEN [mgr |-> mgr, signalCount |-> signalCount, threw |-> FALSE]
    ELSE IF ~IsSignalElement(elements[i])
    THEN signalLoop(mgr, idx, elements, i + 1, signalCount)
    ELSE LET nearestRoad == findNearestGrid(idx, elements[i].lon,
                                            elements[i].lat, SignalRadius)
         IN  IF nearestRoad = Absent
             THEN signalLoop(mgr, idx, elements, i + 1, signalCount)
             ELSE IF addSignalThrows(mgr, elements[i].lon, elements[i].lat)
             THEN [mgr |-> mgr, signalCount |-> signalCount, threw |-> TRUE]
             ELSE signalLoop(addSignal(mgr, elements[i].lon, elements[i].lat,
                                       nearestRoad),
                             idx, elements, i + 1, signalCount + 1)

\* what SignalManager.loadFromOSM hands back, as a record of what it holds
signalReturn(signalCount) == [signalCount |-> signalCount]

\* getSignalsForRoad(roadId)
getSignalsForRoad(mgr, roadId) ==
    SelectSeq(mgr.signals, LAMBDA s : s.roadId = Present(roadId))

\* The elements handed to SignalManager.loadFromOSM: the signal between A
\* and B, one 1 unit from A, one far from every road, and a node that is
\* no signal.
NodeSigA ==
    [type |-> "node", id |-> 7,
     tags |-> [highway |-> Str(<<"traffic_signals">>)],
     lon |-> 4, lat |-> 1]
NodeSigFar ==
    [type |-> "node", id |-> 8,
     tags |-> [highway |-> Str(<<"traffic_signals">>)],
     lon |-> 20, lat |-> 20]
NodeCrossing ==
    [type |-> "node", id |-> 9,
     tags |-> [highway |-> Str(<<"crossing">>)],
     lon |-> 4, lat |-> 2]
SignalElements == {NodeSig, NodeSigA, NodeSigFar, NodeCrossing}
SignalBatches == UNION {[1..n -> SignalElements] : n \in 1..MaxSignals}

LoadSignals ==
    \E elements \in SignalBatches :
        /\ Len(signals) + Len(elements) <= MaxSignals
        /\ LET done == signalLoop(SignalManager, Index, elements, 1, 0)
           IN  /\ signals' = done.mgr.signals
               /\ signalEntities' = done.mgr.signalEntities
               /\ ret' = [op |-> "loadSignals", elements |-> elements,
                          threw |-> done.threw,
                          value |-> IF done.threw THEN <<>>
                                    ELSE signalReturn(done.signalCount)]
        /\ UNCHANGED <<roads, roadKeys, spatialGrid, spatialIndex, trafficData,
                   held, selector, pavement>>

GetSignalsForRoad ==
    \E roadId \in RoadIds :
        /\ ret' = [op |-> "getSignalsForRoad", roadId |-> roadId,
                   value |-> getSignalsForRoad(SignalManager, roadId)]
        /\ UNCHANGED <<roads, roadKeys, spatialGrid, spatialIndex, trafficData,
                       signals, signalEntities,
                   held, selector, pavement>>

NextSignals ==
    \/ AddRoad
    \/ SetTrafficData
    \/ LoadSignals
    \/ GetSignalsForRoad

SpecSignals == Init /\ [][NextSignals]_vars

\* The locations addSignal is called with, and the roads it is handed: none,
\* or a road of the index.
SignalLocations == {<<NodeSig.lon, NodeSig.lat>>, <<NodeSigA.lon, NodeSigA.lat>>,
                    <<NodeSigFar.lon, NodeSigFar.lat>>}
NearestRoads == {Absent} \cup {Present(roads[k]) : k \in DOMAIN roads}

\* SignalManager.addSignal(lon, lat, nearestRoad), called by itself: the
\* signal it returns, or that it threw
AddSignal ==
    \E at \in SignalLocations, nearestRoad \in NearestRoads :
        /\ Len(signals) < MaxSignals
        /\ IF addSignalThrows(SignalManager, at[1], at[2])
           THEN /\ UNCHANGED <<signals, signalEntities>>
                /\ ret' = [op |-> "addSignal", lon |-> at[1], lat |-> at[2],
                           threw |-> TRUE, value |-> <<>>]
           ELSE LET done == addSignal(SignalManager, at[1], at[2], nearestRoad)
                IN  /\ signals' = done.signals
                    /\ signalEntities' = done.signalEntities
                    /\ ret' = [op |-> "addSignal", lon |-> at[1], lat |-> at[2],
                               threw |-> FALSE,
                               value |-> <<done.signals[Len(done.signals)]>>]
        /\ UNCHANGED <<roads, roadKeys, spatialGrid, spatialIndex, trafficData,
                       held, selector, pavement>>

\* The roads are loaded (A alone, A and B, or B and the long road), then
\* signals are loaded and added
InitAssociate ==
    /\ \E loaded \in {<<WayA>>, <<WayA, WayB>>, <<WayB, WayLong>>} :
           LET idx == loadLoop([roads |-> <<>>, roadKeys |-> <<>>,
                                spatialGrid |-> <<>>, spatialIndex |-> <<>>],
                               loaded, 1, 0)[1]
           IN  /\ roads = idx.roads
               /\ roadKeys = idx.roadKeys
               /\ spatialGrid = idx.spatialGrid
               /\ spatialIndex = idx.spatialIndex
    /\ trafficData = <<>>
    /\ signals = <<>>
    /\ signalEntities = <<>>
    /\ held = NoArray
    /\ selector = NewRoadSelector
    /\ pavement = NewPavementViewer
    /\ ret = [op |-> "new"]

NextAssociate ==
    \/ LoadSignals
    \/ AddSignal

SpecAssociate == InitAssociate /\ [][NextAssociate]_vars

\* ------------------------------------------------------------ PCIJoiner
\* Centimetres of great circle per unit: R * (pi / 180) / 11000 m, with
\* 355/113 for pi, rounded to the nearest centimetre (1011).
HaversineCmPerUnit ==
    ((EarthRadius \div 1000) * 100 * 355 + (113 * 180 * gridSize) \div 2)
        \div (113 * 180 * gridSize)

\* calculateDistance(lon1, lat1, lon2, lat2): the haversine distance.  On
\* the coordinates of this model (within 50 units of latitude 0) cos(lat) is
\* 1 to 9 digits and the arc is its chord, so the distance is
\* HaversineCmPerUnit times the planar distance in units; carried as the
\* square of that planar distance.
calculateDistance(lon1, lat1, lon2, lat2) ==
    (lon2 - lon1) * (lon2 - lon1) + (lat2 - lat1) * (lat2 - lat1)

\* Math.round(distance) in metres of a distance given by its square in units
RoundMeters(sq) ==
    CHOOSE k \in 0..(PciRadius \div 100) :
        /\ 4 * HaversineCmPerUnit * HaversineCmPerUnit * sq
              < (2 * k + 1) * (2 * k + 1) * 10000
        /\ k > 0 => 4 * HaversineCmPerUnit * HaversineCmPerUnit * sq
                       >= (2 * k - 1) * (2 * k - 1) * 10000

\* the limit of findNearestPCI, as a square in units
PciLimit(cm) == <<cm * cm, HaversineCmPerUnit * HaversineCmPerUnit>>

\* this.pciData: records of FGCU_PCI_DATA, placed on the roads of this
\* model: 2 units from the last point of A and of B, on A 4 units from its
\* last point, on the long road, and 2 units from the last point of A on
\* the other side.
PciData ==
    <<[id |-> "pci_001", location |-> <<8, 0>>, pci |-> Num(85),
       condition |-> Str(<<"Good">>), lastInspection |-> Str(<<"2024-10-15">>),
       surface |-> Str(<<"Asphalt">>)],
      [id |-> "pci_002", location |-> <<4, 2>>, pci |-> Num(72),
       condition |-> Str(<<"Fair">>), lastInspection |-> Str(<<"2024-09-20">>),
       surface |-> Str(<<"Concrete">>)],
      [id |-> "pci_003", location |-> <<20, 0>>, pci |-> Num(91),
       condition |-> Str(<<"Excellent">>), lastInspection |-> Str(<<"2024-11-01">>),
       surface |-> Str(<<"Asphalt">>)],
      [id |-> "pci_004", location |-> <<8, 4>>, pci |-> Num(58),
       condition |-> Str(<<"Poor">>), lastInspection |-> Str(<<"2024-08-10">>),
       surface |-> Str(<<"Asphalt">>)]>>

RECURSIVE pciLoopNonStrict(_, _, _, _, _, _)
\* the loop of findNearestPCI with `distance <= nearestDistance`
pciLoopNonStrict(pciData, i, lon, lat, nearestPCI, nearestDistance) ==
    IF i > Len(pciData) THEN nearestPCI
    ELSE LET pci == pciData[i]
             distance == calculateDistance(lon, lat, pci.location[1],
                                           pci.location[2])
         IN  IF ~DistLess(nearestDistance, <<distance, 1>>)
             THEN pciLoopNonStrict(pciData, i + 1, lon, lat,
                     Present([id |-> pci.id, location |-> pci.location,
                              pci |-> pci.pci, condition |-> pci.condition,
                              lastInspection |-> pci.lastInspection,
                              surface |-> pci.surface,
                              distance |-> Num(RoundMeters(distance))]),
                     <<distance, 1>>)
             ELSE pciLoopNonStrict(pciData, i + 1, lon, lat, nearestPCI,
                                   nearestDistance)

RECURSIVE pciLoop(_, _, _, _, _, _)
\* the loop of findNearestPCI: a record replaces the nearest so far on
\* `distance < nearestDistance`; {...pci, distance: Math.round(distance)}
pciLoop(pciData, i, lon, lat, nearestPCI, nearestDistance) ==
    IF i > Len(pciData) THEN nearestPCI
    ELSE LET pci == pciData[i]
             distance == calculateDistance(lon, lat, pci.location[1],
                                           pci.location[2])
         IN  IF DistLess(<<distance, 1>>, nearestDistance)
             THEN pciLoop(pciData, i + 1, lon, lat,
                     Present([id |-> pci.id, location |-> pci.location,
                              pci |-> pci.pci, condition |-> pci.condition,
                              lastInspection |-> pci.lastInspection,
                              surface |-> pci.surface,
                              distance |-> Num(RoundMeters(distance))]),
                     <<distance, 1>>)
             ELSE pciLoop(pciData, i + 1, lon, lat, nearestPCI, nearestDistance)

\* findNearestPCI(lon, lat, maxDistanceMeters): Present(record) or Absent
findNearestPCI(pciData, lon, lat, maxDistanceMeters) ==
    pciLoop(pciData, 1, lon, lat, Absent, PciLimit(maxDistanceMeters))

\* road.metadata = road.metadata || {}
MetadataOf(road) == IF "metadata" \in DOMAIN road THEN road.metadata ELSE <<>>

\* the road matched with nearestPCI
matched(road, nearestPCI) ==
    MapSet(road, "metadata",
        MapSet(MapSet(MapSet(MapSet(MapSet(MetadataOf(road),
            "pci", nearestPCI.pci),
            "pciCondition", nearestPCI.condition),
            "pciLastInspection", nearestPCI.lastInspection),
            "pciSurface", nearestPCI.surface),
            "pciDistance", nearestPCI.distance))

\* an unmatched road that keeps the pci it has
unmatchedKeepsPci(road) ==
    MapSet(road, "metadata",
        MapSet(MetadataOf(road), "pciCondition", Str(<<"Unknown">>)))

\* the road with no PCI record nearby
unmatched(road) ==
    MapSet(road, "metadata",
        MapSet(MapSet(MetadataOf(road), "pci", Null),
               "pciCondition", Str(<<"Unknown">>)))

RECURSIVE joinLoop(_, _, _, _, _)
\* the loop of joinToRoads over the roads given, here the roads of the
\* index in the order of getAllRoads(); [roads, joinCount] at the end
joinLoop(pciData, roadMap, keys, i, joinCount) ==
    IF i > Len(keys) THEN [roads |-> roadMap, joinCount |-> joinCount]
    ELSE LET road == roadMap[keys[i]]
             nearestPCI == findNearestPCI(pciData, road.midpoint[1],
                                          road.midpoint[2], PciRadius)
         IN  IF nearestPCI # Absent
             THEN joinLoop(pciData,
                           [roadMap EXCEPT ![keys[i]] = matched(road, nearestPCI[1])],
                           keys, i + 1, joinCount + 1)
             ELSE joinLoop(pciData,
                           [roadMap EXCEPT ![keys[i]] = unmatched(road)],
                           keys, i + 1, joinCount)

\* PCIJoiner.getPCICategory(pci), of a number given in tenths
getPCICategory(tenths) ==
    IF tenths >= 800 THEN Str(<<"Excellent">>)
    ELSE IF tenths >= 700 THEN Str(<<"Good">>)
    ELSE IF tenths >= 600 THEN Str(<<"Fair">>)
    ELSE Str(<<"Poor">>)

\* A date the given number of days ago (getRandomInspectionDate)
DaysAgo(k) == [t |-> "date", s |-> <<>>, n |-> k]

\* generateSyntheticPCI(road).  random is the three values of Math.random()
\* it draws, in thousandths: for the variation, the date and the surface.
\* Scores are in tenths until Math.round.
generateSyntheticPCI(road, random) ==
    LET basePCI == IF road.kind \in {Str(<<"trunk">>), Str(<<"primary">>)} THEN 800
                   ELSE IF road.kind \in {Str(<<"residential">>), Str(<<"service">>)}
                   THEN 650
                   ELSE 750
        variation == ((random[1] - 500) * 200) \div 1000
        finalPCI == Max({400, Min({950, basePCI + variation})})
    IN  [pci |-> Num((finalPCI + 5) \div 10),
         condition |-> getPCICategory(finalPCI),
         lastInspection |-> DaysAgo(365 - (365 * random[2]) \div 1000),
         surface |-> IF random[3] > 300 THEN Str(<<"Asphalt">>)
                     ELSE Str(<<"Concrete">>),
         synthetic |-> True]

\* a fill that takes every road
needsFillAlways(road) == TRUE

\* !road.metadata || road.metadata.pci === null
needsFill(road) ==
    \/ "metadata" \notin DOMAIN road
    \/ Tag(road.metadata, "pci") = Null

\* a fill that writes the score onto the road and not into its metadata
filledOnRoad(road, syntheticPCI) ==
    MapSet(MapSet(road, "pci", syntheticPCI.pci), "metadata",
        MapSet(MapSet(MetadataOf(road), "pci", syntheticPCI.pci),
               "pciSynthetic", True))

\* the road filled with syntheticPCI
filled(road, syntheticPCI) ==
    MapSet(road, "metadata",
        MapSet(MapSet(MapSet(MapSet(MapSet(MetadataOf(road),
            "pci", syntheticPCI.pci),
            "pciCondition", syntheticPCI.condition),
            "pciLastInspection", syntheticPCI.lastInspection),
            "pciSurface", syntheticPCI.surface),
            "pciSynthetic", True))

RECURSIVE ensureLoop(_, _, _, _, _)
\* the loop of ensureAllRoadsHavePCI; randoms[i] is what Math.random() gives
\* while road i is filled
ensureLoop(roadMap, keys, randoms, i, syntheticCount) ==
    IF i > Len(keys) THEN [roads |-> roadMap, syntheticCount |-> syntheticCount]
    ELSE LET road == roadMap[keys[i]]
         IN  IF needsFill(road)
             THEN ensureLoop([roadMap EXCEPT ![keys[i]] =
                                 filled(road, generateSyntheticPCI(road, randoms[i]))],
                             keys, randoms, i + 1, syntheticCount + 1)
             ELSE ensureLoop(roadMap, keys, randoms, i + 1, syntheticCount)

\* The segments handed to addRoad before the PCI calls: A and B as
\* trafficSystem.js builds them, the long road as roadIndex.ts builds it (no
\* pci key), the bend with no metadata at all, and a tertiary road away from
\* every record.
WaySide ==
    [type |-> "way", id |-> 8,
     tags |-> [highway |-> Str(<<"tertiary">>)],
     geometry |-> <<Pt(10, 10), Pt(14, 10)>>]
WithoutMetadata(road) == [k \in DOMAIN road \ {"metadata"} |-> road[k]]
PciSegments ==
    {fromOSMWay(WayA), fromOSMWay(WayB), fromOSMWayTs(WayLong),
     WithoutMetadata(fromOSMWay(WayBend)), fromOSMWay(WaySide)}

\* the values of Math.random(), in thousandths, of one generateSyntheticPCI
Randoms == {<<0, 0, 0>>, <<500, 999, 300>>, <<995, 500, 999>>}

AddSegment ==
    \E road \in PciSegments :
        /\ Len(spatialIndex) < MaxEntries
        /\ SetIndex(addRoad(Index, road))
        /\ ret' = [op |-> "addRoad", id |-> road.id]
        /\ UNCHANGED <<trafficData, signals, signalEntities,
                   held, selector, pavement>>

\* pciJoiner.joinToRoads(roadIndex.getAllRoads())
JoinToRoads ==
    /\ LET done == joinLoop(PciData, roads, roadKeys, 1, 0)
       IN  /\ roads' = done.roads
           /\ ret' = [op |-> "joinToRoads", value |-> done.joinCount]
    /\ UNCHANGED <<roadKeys, spatialGrid, spatialIndex, trafficData,
                   signals, signalEntities,
                   held, selector, pavement>>

\* pciJoiner.ensureAllRoadsHavePCI(roadIndex.getAllRoads())
EnsureAllRoadsHavePCI ==
    \E randoms \in [1..Len(roadKeys) -> Randoms] :
        /\ LET done == ensureLoop(roads, roadKeys, randoms, 1, 0)
           IN  /\ roads' = done.roads
               /\ ret' = [op |-> "ensureAllRoadsHavePCI",
                          value |-> done.syntheticCount]
        /\ UNCHANGED <<roadKeys, spatialGrid, spatialIndex, trafficData,
                       signals, signalEntities,
                   held, selector, pavement>>

NextPci ==
    \/ AddSegment
    \/ JoinToRoads
    \/ EnsureAllRoadsHavePCI

SpecPci == Init /\ [][NextPci]_vars

\* ------------------------------------------------------------ getAllRoads
\* An array a caller holds: its own elements, or (live) the values of the
\* roads map themselves.
\* this.roads.values(), in insertion order
RoadValues(idx) == [i \in 1..Len(idx.roadKeys) |-> idx.roads[idx.roadKeys[i]]]

\* a getAllRoads that hands out the values of the map themselves
getAllRoadsLive(idx) == [live |-> TRUE, items |-> <<>>]

\* getAllRoads(): Array.from(this.roads.values()), a new array
getAllRoads(idx) == [live |-> FALSE, items |-> RoadValues(idx)]

\* the elements of an array, read now
ArrayItems(array) == IF array.live THEN RoadValues(Index) ELSE array.items

GetAllRoads ==
    /\ held' = Present(getAllRoads(Index))
    /\ ret' = [op |-> "getAllRoads", value |-> ArrayItems(getAllRoads(Index))]
    /\ UNCHANGED <<roads, roadKeys, spatialGrid, spatialIndex, trafficData,
                   signals, signalEntities, selector, pavement>>

\* the caller removes the last element of the array it holds (pop) or adds
\* one (push); on an array that is the map's own values this changes the map
ChangeArray ==
    \E change \in {"push", "pop"} :
        /\ held # NoArray
        /\ change = "pop" => Len(ArrayItems(held[1])) > 0
        /\ change = "push" => Len(ArrayItems(held[1])) <= MaxEntries
        /\ IF held[1].live
           THEN /\ held' = held
                /\ IF change = "pop"
                   THEN /\ roadKeys' = SubSeq(roadKeys, 1, Len(roadKeys) - 1)
                        /\ roads' = [id \in DOMAIN roads \ {roadKeys[Len(roadKeys)]}
                                        |-> roads[id]]
                   ELSE /\ roadKeys' = KeysSet(roadKeys, OsmId(WayLong.id))
                        /\ roads' = MapSet(roads, OsmId(WayLong.id), fromOSMWay(WayLong))
           ELSE /\ held' = Present([held[1] EXCEPT !.items =
                              IF change = "pop"
                              THEN SubSeq(held[1].items, 1, Len(held[1].items) - 1)
                              ELSE Append(held[1].items, fromOSMWay(WayLong))])
                /\ UNCHANGED <<roads, roadKeys>>
        /\ ret' = [op |-> "changeArray", change |-> change]
        /\ UNCHANGED <<spatialGrid, spatialIndex, trafficData,
                       signals, signalEntities, selector, pavement>>

NextArrays ==
    \/ AddRoad
    \/ LoadFromOSM
    \/ GetRoad
    \/ GetAllRoads
    \/ ChangeArray

SpecArrays == Init /\ [][NextArrays]_vars

\* The joiner at work on the roads of an index that is queried meanwhile:
\* at first the index holds two roads and the traffic store the measurements
\* of the first of them
InitMetadata ==
    \E first \in {fromOSMWay(WayA), fromOSMWayTs(WayLong)},
       second \in {fromOSMWay(WaySide), WithoutMetadata(fromOSMWay(WayBend))} :
        /\ first.id # second.id
        /\ LET idx == addRoad(addRoad([roads |-> <<>>, roadKeys |-> <<>>,
                                      spatialGrid |-> <<>>, spatialIndex |-> <<>>],
                                     first), second)
           IN  /\ roads = idx.roads
               /\ roadKeys = idx.roadKeys
               /\ spatialGrid = idx.spatialGrid
               /\ spatialIndex = idx.spatialIndex
        /\ trafficData = setTrafficData(<<>>, first.id,
                                        [currentVolume |-> 900, level |-> "HEAVY",
                                         signalCount |-> 0])
        /\ signals = <<>>
        /\ signalEntities = <<>>
        /\ held = NoArray
        /\ selector = NewRoadSelector
        /\ pavement = NewPavementViewer
        /\ ret = [op |-> "new"]

NextMetadata ==
    \/ JoinToRoads
    \/ EnsureAllRoadsHavePCI
    \/ FindNearest
    \/ GetRoad
    \/ GetAllRoads
    \/ GetTrafficData
    \/ GetStats

SpecMetadata == InitMetadata /\ [][NextMetadata]_vars

\* ------------------------------------------------------------ RoadSelector
\* getTrafficColor(level)
getTrafficColor(level) ==
    IF level = "HEAVY" THEN "RED"
    ELSE IF level = "MODERATE" THEN "ORANGE"
    ELSE IF level = "LIGHT" THEN "YELLOW"
    ELSE IF level = "MINIMAL" THEN "LIME"
    ELSE "WHITE"

\* getWidthForRoad(roadKind)
getWidthForRoad(roadKind) ==
    IF roadKind \in {Str(<<"trunk">>), Str(<<"primary">>)} THEN 8
    ELSE IF roadKind \in {Str(<<"secondary">>), Str(<<"tertiary">>)} THEN 6
    ELSE IF roadKind \in {Str(<<"residential">>), Str(<<"service">>)} THEN 3
    ELSE 4

\* the polyline of a highlighted road; glowPower in tenths
Highlight == [width |-> 12, glowPower |-> 8, color |-> "CYAN"]

\* clearSelection that forgets the selected entity as it looks
clearSelectionKeepsLook(sel, traffic) ==
    [sel EXCEPT !.selectedRoad = Absent, !.selectedEntity = 0,
                !.notified = Append(sel.notified, Absent),
                !.last = Present(Absent)]

\* clearSelection(): the selected entity gets the width of its road and the
\* colour of its traffic level back, both fields are set to null and
\* onRoadSelected is called with null
clearSelection(sel, traffic) ==
    LET data == getTrafficData(traffic, sel.selectedRoad[1].id)
        color == IF data # Absent THEN getTrafficColor(data[1].level)
                 ELSE "GRAY"
        restored == [width |-> getWidthForRoad(sel.selectedRoad[1].kind),
                     glowPower |-> 4, color |-> color]
        entities ==
            IF sel.selectedEntity # 0 /\ sel.entities[sel.selectedEntity].polyline # Absent
            THEN [sel.entities EXCEPT ![sel.selectedEntity].polyline = Present(restored)]
            ELSE sel.entities
    IN  [sel EXCEPT !.entities = entities,
                    !.selectedRoad = Absent, !.selectedEntity = 0,
                    !.notified = Append(sel.notified, Absent),
                    !.last = Present(Absent)]

\* the first entity of the viewer whose roadId is id, 0 if there is none
FirstEntityOf(entities, id) ==
    IF \E i \in 1..Len(entities) : entities[i].roadId = Present(id)
    THEN CHOOSE i \in 1..Len(entities) :
             /\ entities[i].roadId = Present(id)
             /\ \A j \in 1..(i - 1) : entities[j].roadId # Present(id)
    ELSE 0

\* selectRoad(road)
selectRoad(sel, traffic, road) ==
    LET cleared == clearSelection(sel, traffic)
        i == FirstEntityOf(cleared.entities, road.id)
        lit == i # 0 /\ cleared.entities[i].polyline # Absent
    IN  [cleared EXCEPT
            !.selectedRoad = Present(road),
            !.entities = IF lit THEN [cleared.entities EXCEPT
                                         ![i].polyline = Present(Highlight)]
                         ELSE cleared.entities,
            !.selectedEntity = IF lit THEN i ELSE 0,
            !.notified = Append(cleared.notified, Present(road)),
            !.last = Present(Present(road))]

\* the road of the entity picked (0 when scene.pick finds none), if the
\* entity is a signal or a road with a roadId of a road of the index
PickedRoad(sel, idx, picked) ==
    IF /\ picked # 0
       /\ sel.entities[picked].type \in {"traffic_signal", "road"}
       /\ sel.entities[picked].roadId # Absent
    THEN getRoad(idx, sel.entities[picked].roadId[1])
    ELSE Absent

\* handleClick(event): picked is what scene.pick answers for the position,
\* cartesian the point of the ellipsoid under it as <<lon, lat>>, if any
handleClick(sel, idx, traffic, picked, cartesian) ==
    LET start == [sel EXCEPT !.notified = <<>>]
        road == PickedRoad(sel, idx, picked)
    IN  IF road # Absent THEN selectRoad(start, traffic, road[1])
        ELSE IF cartesian # Absent
        THEN LET nearestRoad == findNearestGrid(idx, cartesian[1][1], cartesian[1][2],
                                                DefaultMaxDistance)
             IN  IF nearestRoad # Absent
                 THEN selectRoad(start, traffic, nearestRoad[1])
                 ELSE clearSelection(start, traffic)
        ELSE start

\* The entities of the viewer: the polylines of roads A and B, the signal of
\* A (before or after the polyline of A), a signal of no road, the polyline
\* of a road the index does not hold and an entity that is neither.
RoadEntity(road) ==
    [type |-> "road", roadId |-> Present(road.id),
     polyline |-> Present([width |-> getWidthForRoad(road.kind), glowPower |-> 4,
                           color |-> "GRAY"])]
SignalEntity(roadId) ==
    [type |-> "traffic_signal", roadId |-> roadId, polyline |-> Absent]
OtherEntity == [type |-> "label", roadId |-> Absent, polyline |-> Absent]
Scenes ==
    {<<RoadEntity(fromOSMWay(WayA)), RoadEntity(fromOSMWay(WayB)),
       SignalEntity(Present(OsmId(1))), SignalEntity(Absent),
       RoadEntity(fromOSMWay(WayLong))>>,
     <<SignalEntity(Present(OsmId(1))), RoadEntity(fromOSMWay(WayA)),
       RoadEntity(fromOSMWay(WayB)), OtherEntity>>}
\* where the ellipsoid is clicked: on A, next to B, and far from both
ClickPoints == {<<4, 2>>, <<4, -3>>, <<20, 20>>}

\* new RoadSelector(viewer, roadIndex, onRoadSelected) for an index of the
\* roads A and B and a viewer that shows them
InitSelect ==
    /\ LET idx == addRoad(addRoad([roads |-> <<>>, roadKeys |-> <<>>,
                                   spatialGrid |-> <<>>, spatialIndex |-> <<>>],
                                  fromOSMWay(WayA)), fromOSMWay(WayB))
       IN  /\ roads = idx.roads
           /\ roadKeys = idx.roadKeys
           /\ spatialGrid = idx.spatialGrid
           /\ spatialIndex = idx.spatialIndex
    /\ trafficData = <<>>
    /\ signals = <<>>
    /\ signalEntities = <<>>
    /\ held = NoArray
    /\ \E scene \in Scenes : selector = [NewRoadSelector EXCEPT !.entities = scene]
    /\ pavement = NewPavementViewer
    /\ ret = [op |-> "new"]

\* a LEFT_CLICK on the viewer
HandleClick ==
    \E picked \in 0..Len(selector.entities),
       cartesian \in {Absent} \cup {Present(c) : c \in ClickPoints} :
        /\ selector' = handleClick(selector, Index, trafficData, picked, cartesian)
        /\ ret' = [op |-> "handleClick", picked |-> picked, cartesian |-> cartesian]
        /\ UNCHANGED <<roads, roadKeys, spatialGrid, spatialIndex, trafficData,
                       signals, signalEntities, held, pavement>>

NextSelect ==
    \/ HandleClick
    \/ SetTrafficData

SpecSelect == InitSelect /\ [][NextSelect]_vars

\* ------------------------------------------------------------ pavement viewer
\* The page of pavement-viewer.js as updatePavementCondition sees it: the
\* display style of the loading element, the text of pci-value (none for
\* '--', else the data displayed, as the location it is for and whether the
\* API or generateMockPavementData made it), and the invocations of
\* updatePavementCondition with the await each one is at: "fetch", "json",
\* or "done" when it has returned.

\* updatePavementCondition(location) up to its first await
showLoading(page, location) ==
    [loading |-> "flex", pciValue |-> Absent,
     requests |-> Append(page.requests, [location |-> location, stage |-> "fetch"])]

\* await fetch(...) answers with response.ok: clearTimeout, then
\* await response.json()
awaitJson(page, i) == [page EXCEPT !.requests[i].stage = "json"]

\* the rest of invocation i: displayPavementCondition(data) in the try or
\* the catch block, and `loadingEl.style.display = "none"` in finally
displayAndHide(page, i, by) ==
    [loading |-> "none",
     pciValue |-> Present([location |-> page.requests[i].location, by |-> by]),
     requests |-> [page.requests EXCEPT ![i].stage = "done"]]

\* the positions that are analysed
Locations == {"P", "Q"}

\* updatePavementCondition(location) is called (by updateStreetView or the
\* position_changed listener)
UpdatePavementCondition ==
    \E location \in Locations :
        /\ Len(pavement.requests) < MaxRequests
        /\ pavement' = showLoading(pavement, location)
        /\ ret' = [op |-> "updatePavementCondition", location |-> location]
        /\ UNCHANGED <<roads, roadKeys, spatialGrid, spatialIndex, trafficData,
                       signals, signalEntities, held, selector>>

\* the fetch of invocation i is answered with a status that is ok
FetchResponds ==
    \E i \in 1..Len(pavement.requests) :
        /\ pavement.requests[i].stage = "fetch"
        /\ pavement' = awaitJson(pavement, i)
        /\ ret' = [op |-> "fetchResponds", request |-> i]
        /\ UNCHANGED <<roads, roadKeys, spatialGrid, spatialIndex, trafficData,
                       signals, signalEntities, held, selector>>

\* the fetch of invocation i fails: the network, the abort of the 10 s
\* timeout, or a status that is not ok; the catch block displays the
\* generated data
FetchFails ==
    \E i \in 1..Len(pavement.requests), cause \in {"network", "timeout", "status"} :
        /\ pavement.requests[i].stage = "fetch"
        /\ pavement' = displayAndHide(pavement, i, "mock")
        /\ ret' = [op |-> "fetchFails", request |-> i, cause |-> cause]
        /\ UNCHANGED <<roads, roadKeys, spatialGrid, spatialIndex, trafficData,
                       signals, signalEntities, held, selector>>

\* response.json() of invocation i settles: with data of a pci and a
\* condition, or with anything else (or a rejection), which throws
JsonSettles ==
    \E i \in 1..Len(pavement.requests), valid \in BOOLEAN :
        /\ pavement.requests[i].stage = "json"
        /\ pavement' = displayAndHide(pavement, i, IF valid THEN "api" ELSE "mock")
        /\ ret' = [op |-> "jsonSettles", request |-> i, valid |-> valid]
        /\ UNCHANGED <<roads, roadKeys, spatialGrid, spatialIndex, trafficData,
                       signals, signalEntities, held, selector>>

NextPavement ==
    \/ UpdatePavementCondition
    \/ FetchResponds
    \/ FetchFails
    \/ JsonSettles

SpecPavement == Init /\ [][NextPavement]_vars

\* ------------------------------------------------------------ reference
\* The point-to-polyline distance of the contract: the least, over the
\* consecutive pairs of positions of the road, of the point-to-segment
\* distance.
SubSegmentDistances(lon, lat, road) ==
    {pointToLineDistance(lon, lat, road.positions[2 * k - 1], road.positions[2 * k],
                         road.positions[2 * k + 1], road.positions[2 * k + 2]) :
        k \in 1..((Len(road.positions) \div 2) - 1)}

TrueDistance(lon, lat, road) ==
    CHOOSE q \in SubSegmentDistances(lon, lat, road) :
        \A o \in SubSegmentDistances(lon, lat, road) : ~DistLess(o, q)

IndexedRoads == {roads[id] : id \in DOMAIN roads}

\* the indexed roads strictly within the limit of the last query
WithinLimit ==
    {r \in IndexedRoads :
        DistLess(TrueDistance(ret.lon, ret.lat, r), MetersLimit(ret.maxDistanceMeters))}

\* a road lies at exactly the limit of the last query
AtLimit ==
    \E r \in IndexedRoads :
        DistEq(TrueDistance(ret.lon, ret.lat, r), MetersLimit(ret.maxDistanceMeters))

\* the place of an id in the order of first insertion
Place(id) == CHOOSE i \in 1..Len(roadKeys) : roadKeys[i] = id

QueryOps == {"findNearest", "getRoad"}
IndexVars == <<roads, roadKeys, spatialGrid, spatialIndex, trafficData>>

\* ------------------------------------------------------------ claims
\* C1: a road returned by findNearest, by the grid index or by the tree
\* index, is an indexed road whose point-to-polyline distance from the query
\* point is strictly less than the limit; when the nearest road lies at
\* exactly the limit, both return "not found".
C1_ReturnedWithinLimit ==
    ret.op = "findNearest" =>
        /\ \A res \in {ret.grid, ret.tree} :
               res # Absent => res[1] \in WithinLimit
        /\ (AtLimit /\ WithinLimit = {}) => (ret.grid = Absent /\ ret.tree = Absent)

\* a query answered with a road by both indexes
C1_Witness ==
    /\ ret.op = "findNearest"
    /\ ret.grid # Absent
    /\ ret.tree # Absent
    /\ Cardinality(DOMAIN roads) = 2

\* a query whose nearest road lies at exactly the limit
C1_BoundaryReached ==
    ret.op = "findNearest" /\ AtLimit /\ WithinLimit = {} /\ ret.grid = Absent

\* the result res agrees with a linear scan over all indexed roads
AgreesWithScan(res) ==
    /\ WithinLimit # {} => res # Absent
    /\ res # Absent =>
           \A o \in IndexedRoads :
               ~DistLess(TrueDistance(ret.lon, ret.lat, o),
                         TrueDistance(ret.lon, ret.lat, res[1]))

\* C2: findNearest agrees with a brute-force scan over all indexed roads, in
\* the grid index as in the tree index: a road within the limit is found, and
\* no indexed road is nearer than the one returned.
C2_AgreesWithBruteForce ==
    ret.op = "findNearest" => AgreesWithScan(ret.grid) /\ AgreesWithScan(ret.tree)

\* C3: fed the same addRoad calls, the grid index and the tree index return
\* the same road, or both "not found", for every query.
C3_GridEqualsTree ==
    ret.op = "findNearest" => ret.grid = ret.tree

\* the result res is the earliest inserted of the roads at its distance
EarliestOfTies(res) ==
    res # Absent =>
        \A o \in IndexedRoads :
            (o.id # res[1].id /\ DistEq(TrueDistance(ret.lon, ret.lat, o),
                                        TrueDistance(ret.lon, ret.lat, res[1])))
                => Place(res[1].id) < Place(o.id)

\* C4: of two roads at the same least distance within the limit, findNearest
\* returns the one inserted earlier, whatever cells or nodes hold them.
C4_EarlierInsertedWins ==
    ret.op = "findNearest" => EarliestOfTies(ret.grid) /\ EarliestOfTies(ret.tree)

\* C5: a miss is a value: findNearest returns "not found" when the index is
\* empty or no indexed road is within the limit, getRoad returns the absent
\* value for an id never inserted, and neither call changes the index.
C5_MissIsAValue ==
    /\ [](ret.op = "findNearest" /\ WithinLimit = {}
              => ret.grid = Absent /\ ret.tree = Absent)
    /\ [](ret.op = "getRoad" /\ (\A i \in 1..Len(roadKeys) : roadKeys[i] # ret.id)
              => ret.value = Absent)
    /\ [][ret'.op \in QueryOps => UNCHANGED IndexVars]_vars

\* a query on a loaded index with no road within the limit
C5_Witness ==
    /\ ret.op = "findNearest"
    /\ DOMAIN roads # {}
    /\ spatialIndex # <<>>
    /\ WithinLimit = {}
    /\ ret.grid = Absent
    /\ ret.tree = Absent

\* the ids held by the cells of the grid, with their number of entries
GridCount(id) ==
    LET Hits(key) == {i \in 1..Len(spatialGrid[key]) : spatialGrid[key][i] = id}
        RECURSIVE Sum(_)
        Sum(K) == IF K = {} THEN 0
                  ELSE LET k == CHOOSE x \in K : TRUE
                       IN  Cardinality(Hits(k)) + Sum(K \ {k})
    IN  Sum(DOMAIN spatialGrid)

TreeCount(id) ==
    Cardinality({i \in 1..Len(spatialIndex) : spatialIndex[i].roadId = id})

CoarseIds ==
    UNION {{spatialGrid[k][i] : i \in 1..Len(spatialGrid[k])} : k \in DOMAIN spatialGrid}
        \cup {spatialIndex[i].roadId : i \in 1..Len(spatialIndex)}

\* C6: after any addRoad calls the coarse structures hold exactly one entry
\* for each id of the roads map and no other, and getStats reports
\* roadCount = indexSize.
C6_CoarseMatchesExact ==
    /\ CoarseIds = DOMAIN roads
    /\ \A id \in DOMAIN roads : GridCount(id) = 1 /\ TreeCount(id) = 1
    /\ ret.op = "getStats" => ret.value.roadCount = ret.value.indexSize

\* C7: every road id that is a key of the traffic-metrics store is a key of
\* the roads map.
C7_TrafficKeysAreRoads ==
    DOMAIN trafficData \subseteq DOMAIN roads

\* C8: once a segment is inserted, getRoad of its id returns that segment
\* unchanged after every later addRoad, setTrafficData and query.
C8_InsertedRoadUnchanged ==
    [][\A id \in DOMAIN roads : getRoad(Index', id) = Present(roads[id])]_vars

\* C9: the traffic store holds one snapshot per id and overwrites: after
\* setTrafficData(id, m) getTrafficData(id) is m whatever was there, every
\* other id and the roads are as before; nothing else writes the store, which
\* starts empty, so an id never set reads absent.
C9_TrafficOverwrite ==
    /\ trafficData = <<>>
    /\ [][IF ret'.op = "setTrafficData"
          THEN /\ getTrafficData(trafficData', ret'.roadId) = Present(ret'.metrics)
               /\ \A o \in (DOMAIN trafficData \cup DOMAIN trafficData' \cup TrafficIds)
                               \ {ret'.roadId} :
                      getTrafficData(trafficData', o) = getTrafficData(trafficData, o)
               /\ UNCHANGED <<roads, roadKeys, spatialGrid, spatialIndex>>
          ELSE UNCHANGED trafficData]_vars
    /\ [](ret.op = "getTrafficData" =>
              ret.value = IF ret.roadId \in DOMAIN trafficData
                          THEN Present(trafficData[ret.roadId]) ELSE Absent)

\* a snapshot read back while another id holds a different one
C9_Witness ==
    /\ ret.op = "getTrafficData"
    /\ ret.value # Absent
    /\ \E o \in DOMAIN trafficData : o # ret.roadId /\ <<trafficData[o]>> # ret.value

\* a way the loader skips for its geometry: fewer than 2 points
Malformed(elements) ==
    {i \in 1..Len(elements) :
        IsRoadElement(elements[i]) /\ Len(elements[i].geometry) < 2}
WellFormed(elements) ==
    {i \in 1..Len(elements) :
        IsRoadElement(elements[i]) /\ Len(elements[i].geometry) >= 2}

\* r reports n segments loaded and k elements skipped
Reports(r, n, k) ==
    /\ "roadCount" \in DOMAIN r
    /\ r.roadCount = n
    /\ "skipped" \in DOMAIN r
    /\ r.skipped = k

\* C10: a bulk load skips ways of fewer than 2 points one by one, returns the
\* count of segments loaded and reports the count of skipped elements to the
\* caller.
C10_LoadReportsSkipped ==
    ret.op = "loadFromOSM" =>
        /\ Reports(ret.js, Cardinality(WellFormed(ret.elements)),
                   Cardinality(Malformed(ret.elements)))
        /\ Reports(ret.ts, Cardinality(WellFormed(ret.elements)),
                   Cardinality(Malformed(ret.elements)))

\* ------------------------------------------------------------ C11
\* the ways of a batch the loader looks at, and those of them whose
\* construction fails
Ways(elements) == SelectSeq(elements, IsRoadElement)
Built(elements) == SelectSeq(Ways(elements), LAMBDA w : ~fromOSMWayThrows(w))
Failed(elements) == SelectSeq(Ways(elements), fromOSMWayThrows)
IdsOf(ways) == [i \in 1..Len(ways) |-> OsmId(ways[i].id)]
Occurrences(seq, x) == Cardinality({i \in 1..Len(seq) : seq[i] = x})
First(seq, x) == Min({i \in 1..Len(seq) : seq[i] = x})
LastBuilt(elements, id) ==
    LET built == Built(elements)
        last == Max({i \in 1..Len(built) : OsmId(built[i].id) = id})
    IN  fromOSMWay(built[last])

\* the index after a load of elements is the index before it with the
\* segments of the ways that were built, in input order, and nothing else
LoadedExactly(elements) ==
    LET ids == IdsOf(Built(elements))
        new == {ids[i] : i \in 1..Len(ids)}
    IN  /\ [i \in 1..Len(spatialIndex') |-> spatialIndex'[i].roadId]
             = [i \in 1..Len(spatialIndex) |-> spatialIndex[i].roadId] \o ids
        /\ DOMAIN roads' = DOMAIN roads \cup new
        /\ \A id \in DOMAIN roads' :
              roads'[id] = IF id \in new THEN LastBuilt(elements, id) ELSE roads[id]
        /\ \A id \in DOMAIN roads' \cup {OsmId(w.id) : w \in Elements \cap GoodWays} :
              GridCount(id)' = GridCount(id) + Occurrences(ids, id)
        /\ Len(roadKeys') = Len(roadKeys) + Cardinality(new \ DOMAIN roads)
        /\ SubSeq(roadKeys', 1, Len(roadKeys)) = roadKeys
        /\ \A i \in (Len(roadKeys) + 1)..Len(roadKeys') :
              /\ roadKeys'[i] \in new \ DOMAIN roads
              /\ \A j \in (i + 1)..Len(roadKeys') :
                    First(ids, roadKeys'[i]) < First(ids, roadKeys'[j])

\* nothing of the road id is added: no segment and no coarse entry
NoTraceOf(id) ==
    /\ (id \in DOMAIN roads') = (id \in DOMAIN roads)
    /\ GridCount(id)' = GridCount(id)
    /\ TreeCount(id)' = TreeCount(id)

\* the ways of fewer than 2 points among the elements
TooShort(elements) ==
    {i \in 1..Len(elements) :
        IsRoadElement(elements[i]) /\ Len(elements[i].geometry) < 2}

HasNumber(v) ==
    \/ v.t = "number"
    \/ v.t = "string" /\ \E i \in 1..Len(v.s) : v.s[i] \in Digits

\* the metadata field of a tag is unset when the tag has no number in it and
\* is a number otherwise
ParsedDefensively(tags, metadata, k) ==
    IF HasNumber(Tag(tags, k)) THEN metadata[k].t = "number"
    ELSE metadata[k] = Undefined

\* C12: for every way of at least 2 points, construction of the segment
\* does not fail whatever the lanes and maxspeed tags are, and a missing or
\* non-numeric tag leaves the field unset (never zero, never NaN).
C12_NumericTagsParsedDefensively ==
    (ret.op = "fromOSMWay" /\ Len(ret.way.geometry) >= 2) =>
        /\ ~ret.threw
        /\ \A r \in {ret.js, ret.ts} : \A k \in {"lanes", "maxspeed"} :
              /\ r # Absent
              /\ ParsedDefensively(ret.way.tags, r[1].metadata, k)

\* ------------------------------------------------------------ C13
\* the traffic-signal nodes among the elements
SignalNodes(elements) == {i \in 1..Len(elements) : IsSignalElement(elements[i])}

\* the signal store holds the node, with a road or with none
Stored(node) ==
    \E i \in 1..Len(signals) :
        /\ signals[i].lon = node.lon
        /\ signals[i].lat = node.lat
        /\ \/ signals[i].roadId = Absent
           \/ signals[i].roadId[1] \in DOMAIN roads

\* C13: after SignalManager.loadFromOSM every traffic-signal node of the
\* input is in the signal store, associated to a road or with roadId null.
C13_NoSignalDropped ==
    (ret.op = "loadSignals" /\ ~ret.threw) =>
        \A i \in SignalNodes(ret.elements) : Stored(ret.elements[i])

\* ------------------------------------------------------------ C14
\* the signal nodes of the input that are in the store with a road, and
\* those with none within 25 m
Associated(elements) ==
    {i \in SignalNodes(elements) :
        findNearestGrid(Index, elements[i].lon, elements[i].lat, SignalRadius)
            # Absent}
Orphaned(elements) == SignalNodes(elements) \ Associated(elements)

\* C14: loadSignals returns the count of signals loaded and the count
\* orphaned, and the two sum to the number of traffic-signal nodes.
C14_LoadedAndOrphanedCounts ==
    (ret.op = "loadSignals" /\ ~ret.threw) =>
        /\ "signalCount" \in DOMAIN ret.value
        /\ ret.value.signalCount = Cardinality(Associated(ret.elements))
        /\ "orphaned" \in DOMAIN ret.value
        /\ ret.value.orphaned = Cardinality(Orphaned(ret.elements))
        /\ ret.value.signalCount + ret.value.orphaned
             = Cardinality(SignalNodes(ret.elements))

\* ------------------------------------------------------------ C15
\* the signalCount the Traffic Metrics Store holds for a road (none is 0)
StoreSignalCount(id) ==
    IF id \in DOMAIN trafficData THEN trafficData[id].signalCount ELSE 0
\* the signals of the store associated to a road
SignalsOf(id) ==
    Cardinality({i \in 1..Len(signals) : signals[i].roadId = Present(id)})

\* C15: signal association increments the signalCount of the road in the
\* Traffic Metrics Store by one per signal associated to it, so that the
\* store's signalCount of a road is the number of its loaded signals.
C15_SignalCountIncremented ==
    [][ret'.op = "loadSignals" =>
          \A id \in DOMAIN roads :
              StoreSignalCount(id)' - StoreSignalCount(id)
                 = SignalsOf(id)' - SignalsOf(id)]_vars

\* ------------------------------------------------------------ C16
\* the field k of the metadata of a road (undefined when there is none)
Field(road, k) == Tag(MetadataOf(road), k)

\* the squared distance in units of PCI record i from the point p
RecordDistance(i, p) ==
    (PciData[i].location[1] - p[1]) * (PciData[i].location[1] - p[1])
      + (PciData[i].location[2] - p[2]) * (PciData[i].location[2] - p[2])

\* the PCI records less than 50 m (great circle) from the point p
RecordsNear(p) ==
    {i \in 1..Len(PciData) :
        RecordDistance(i, p) * HaversineCmPerUnit * HaversineCmPerUnit
            < PciRadius * PciRadius}

\* the nearest of them, the first in dataset order among equals
NearestRecord(p) ==
    Min({i \in RecordsNear(p) :
            \A j \in RecordsNear(p) : RecordDistance(i, p) <= RecordDistance(j, p)})

\* the metadata of the road holds the fields of PCI record i
HoldsRecord(road, i) ==
    /\ Field(road, "pci") = PciData[i].pci
    /\ Field(road, "pciCondition") = PciData[i].condition
    /\ Field(road, "pciLastInspection") = PciData[i].lastInspection
    /\ Field(road, "pciSurface") = PciData[i].surface

Targeting(id) ==
    {i \in 1..Len(PciData) :
        \E res \in {findNearestGrid(Index, PciData[i].location[1],
                                    PciData[i].location[2], PciRadius),
                    findNearestTree(Index, PciData[i].location[1],
                                    PciData[i].location[2], PciRadius)} :
            res # Absent /\ res[1].id = id}

NoRecordWithinRadius(road) ==
    \A i \in 1..Len(PciData) :
        ~DistLess(distanceToRoad(PciData[i].location[1], PciData[i].location[2],
                                 road),
                  PciLimit(PciRadius))

\* C17: joinToRoads returns the number of roads whose metadata.pci is
\* non-null after the call, and the metadata.pci of a road with no PCI
\* record within 50 m is null after it.
C17_JoinCount ==
    ret.op = "joinToRoads" =>
        /\ ret.value
             = Cardinality({id \in DOMAIN roads :
                              Field(roads[id], "pci").t = "number"})
        /\ \A id \in DOMAIN roads :
              NoRecordWithinRadius(roads[id]) => Field(roads[id], "pci") = Null

\* a join of two roads has matched one and left the other with pci null
C17_Witness ==
    /\ ret.op = "joinToRoads"
    /\ ret.value = 1
    /\ \E id \in DOMAIN roads : Field(roads[id], "pci").t = "number"
    /\ \E id \in DOMAIN roads :
          /\ NoRecordWithinRadius(roads[id])
          /\ Field(roads[id], "pci") = Null

\* ------------------------------------------------------------ C18
\* C18: after the synthetic fill every road has a PCI value, an integer in
\* [40, 95], whether it had no metadata, a null pci or a pci never set.
C18_EveryRoadHasPci ==
    ret.op = "ensureAllRoadsHavePCI" =>
        \A id \in DOMAIN roads :
            /\ Field(roads[id], "pci").t = "number"
            /\ Field(roads[id], "pci").n >= 40
            /\ Field(roads[id], "pci").n <= 95

\* ------------------------------------------------------------ C19
\* the roads a step gives another pci
Refilled == {id \in DOMAIN roads : Field(roads'[id], "pci") # Field(roads[id], "pci")}

Cleared ==
    /\ Next
    /\ roads' = <<>>
    /\ roadKeys' = <<>>
    /\ spatialGrid' = <<>>
    /\ spatialIndex' = <<>>

\* C20: the index supports clear(): whatever it holds, it has an operation
\* after which the roads map and the coarse structures are those of an
\* empty index (so that the same data can be loaded anew into it).
C20_ClearSupported == DOMAIN roads # {} => ENABLED Cleared

\* ------------------------------------------------------------ C21
\* C21: a findNearest query with a longitude or latitude that is NaN fails
\* with an error; it does not return 'not found' or another value.
C21_MalformedQueryFails ==
    ret.op = "findNearestMalformed" =>
        /\ ret.grid.threw
        /\ ret.tree.threw

\* ------------------------------------------------------------ C22
\* C22: the array getAllRoads() returned keeps its length and its elements
\* over a later addRoad or loadFromOSM, and adding or removing elements of
\* the array changes neither the roads map nor what getAllRoads returns.
C22_GetAllRoadsIsSnapshot ==
    [][/\ (ret'.op \in {"addRoad", "loadFromOSM"} /\ held # NoArray)
            => /\ held' # NoArray
               /\ ArrayItems(held[1])' = ArrayItems(held[1])
       /\ ret'.op = "changeArray"
            => /\ roads' = roads
               /\ RoadValues(Index)' = RoadValues(Index)
       /\ ret'.op = "getAllRoads"
            => /\ Len(ret'.value) = Cardinality(DOMAIN roads)
               /\ \A i \in 1..Len(ret'.value) : ret'.value[i] = roads[roadKeys[i]]
      ]_vars

\* a road was added after the array was taken, and the array has not grown
C22_Witness ==
    /\ ret.op = "addRoad"
    /\ held # NoArray
    /\ Len(ArrayItems(held[1])) = 1
    /\ Cardinality(DOMAIN roads) = 2

\* ------------------------------------------------------------ C23
\* the positions of the segment are inside its bbox, and every bound of the
\* bbox is the coordinate of some position
BboxInvariant(road) ==
    LET n == Len(road.positions) \div 2
        lon(i) == road.positions[2 * i - 1]
        lat(i) == road.positions[2 * i]
    IN  /\ \A i \in 1..n :
              /\ road.bbox[1] <= lon(i) /\ lon(i) <= road.bbox[3]
              /\ road.bbox[2] <= lat(i) /\ lat(i) <= road.bbox[4]
        /\ \E i \in 1..n : lon(i) = road.bbox[1]
        /\ \E i \in 1..n : lat(i) = road.bbox[2]
        /\ \E i \in 1..n : lon(i) = road.bbox[3]
        /\ \E i \in 1..n : lat(i) = road.bbox[4]

\* C23: every segment fromOSMWay builds from a way of at least 2 points has
\* all its positions within its bbox, and each bound of the bbox is attained
\* by a position.
C23_BboxInvariant ==
    (ret.op = "fromOSMWay" /\ ~ret.threw) =>
        /\ Len(ret.way.geometry) >= 2
        /\ BboxInvariant(ret.js[1])
        /\ BboxInvariant(ret.ts[1])

\* a segment of 4 points whose extreme points are not its end points
C23_Witness ==
    /\ ret.op = "fromOSMWay"
    /\ ~ret.threw
    /\ Len(ret.way.geometry) = 4
    /\ ret.js[1].bbox = <<1, -1, 9, 7>>
    /\ ret.ts[1].bbox = <<1, -1, 9, 7>>

\* ------------------------------------------------------------ C24
\* C24: the midpoint of the segment built from a way of n >= 2 points is
\* the point at index floor(n / 2) of the geometry (counted from 0); the
\* index floor(2n / 4) * 2 into the flat positions is the index of the
\* longitude of that point and lies inside the array with the one after it.
C24_VertexCountMidpoint ==
    (ret.op = "fromOSMWay" /\ ~ret.threw) =>
        LET n == Len(ret.way.geometry)
            point == ret.way.geometry[(n \div 2) + 1]
            midIdx == ((2 * n) \div 4) * 2
        IN  /\ ret.js[1].midpoint = <<point.lon, point.lat>>
            /\ ret.ts[1].midpoint = <<point.lon, point.lat>>
            /\ midIdx = 2 * (n \div 2)
            /\ midIdx + 1 < Len(ret.js[1].positions)
            /\ ret.js[1].positions[midIdx + 1] = point.lon
            /\ ret.js[1].positions[midIdx + 2] = point.lat

\* segments of 3 and of 5 points were built, with the second and the third
\* point as midpoint
C24_Witness ==
    /\ ret.op = "fromOSMWay"
    /\ ~ret.threw
    /\ Len(ret.way.geometry) = 5
    /\ ret.js[1].midpoint = <<0, 6>>

\* ------------------------------------------------------------ C25
\* the roadId a signal at (lon, lat) has when it is associated with what
\* findNearest of the index answers for the 25 m radius
NearestRoadId(idx, lon, lat) ==
    LET found == findNearestGrid(idx, lon, lat, SignalRadius)
    IN  IF found = Absent THEN Absent ELSE Present(found[1].id)

\* C25: the roadId of every stored signal is null or the id of a road of the
\* index, and the signals a load stores after the roads were loaded have the
\* id of the road findNearest returns for their location and 25 m.
C25_SignalBackReferences ==
    [][/\ \A i \in 1..Len(signals') :
              \/ signals'[i].roadId = Absent
              \/ signals'[i].roadId[1] \in DOMAIN roads'
       /\ ret'.op = "loadSignals" =>
              \A i \in (Len(signals) + 1)..Len(signals') :
                  signals'[i].roadId =
                      NearestRoadId(Index, signals'[i].lon, signals'[i].lat)]_vars

\* a load has stored two signals, of two roads
C25_Witness ==
    /\ ret.op = "loadSignals"
    /\ Len(signals) = 2
    /\ signals[1].roadId # signals[2].roadId
    /\ \A i \in 1..2 :
           signals[i].roadId = NearestRoadId(Index, signals[i].lon, signals[i].lat)

Immutable(road) == [k \in DOMAIN road \ {"metadata"} |-> road[k]]

\* C26: joinToRoads and ensureAllRoadsHavePCI change nothing but the
\* metadata of the roads: every other field of every road, the ids of the
\* roads map, the coarse structures and the traffic store stay as they are;
\* findNearest, getRoad, getAllRoads, getTrafficData and getStats change
\* nothing of the index and the traffic store.
C26_OnlyMetadataChanges ==
    [][/\ ret'.op \in {"joinToRoads", "ensureAllRoadsHavePCI"} =>
              /\ DOMAIN roads' = DOMAIN roads
              /\ \A id \in DOMAIN roads : Immutable(roads'[id]) = Immutable(roads[id])
              /\ UNCHANGED <<roadKeys, spatialGrid, spatialIndex, trafficData>>
       /\ ret'.op \in {"findNearest", "getRoad", "getAllRoads", "getTrafficData",
                       "getStats"} =>
              UNCHANGED <<roads, roadKeys, spatialGrid, spatialIndex, trafficData>>
      ]_vars

\* a fill has given a road of the index a score, with traffic measurements
\* in the store
C26_Witness ==
    /\ ret.op = "ensureAllRoadsHavePCI"
    /\ ret.value >= 1
    /\ DOMAIN trafficData # {}
    /\ \E id \in DOMAIN roads : Field(roads[id], "pciSynthetic") = True

\* ------------------------------------------------------------ C27
\* C27: whatever the order of the joinToRoads and ensureAllRoadsHavePCI
\* calls, pciSynthetic is true only of a road whose pci the synthetic
\* generator produced, so of no road when joinToRoads, which writes the pci
\* of every road, has just returned; and a road whose pci is null has no
\* synthetic flag, inspection date or surface of an earlier fill.
C27_PciFieldsConsistent ==
    \A id \in DOMAIN roads :
        /\ ret.op = "joinToRoads" => Field(roads[id], "pciSynthetic") # True
        /\ Field(roads[id], "pci") = Null =>
               /\ Field(roads[id], "pciSynthetic") = Undefined
               /\ Field(roads[id], "pciLastInspection") = Undefined
               /\ Field(roads[id], "pciSurface") = Undefined

\* ------------------------------------------------------------ C29
\* the entities that look highlighted
Highlighted == {i \in 1..Len(selector.entities) :
                   selector.entities[i].polyline = Present(Highlight)}

\* C29: under any sequence of clicks the selected entity, if there is one,
\* is an entity of the selected road; at most one entity is highlighted, and
\* only the selected one; a click that selects a road notifies with null and
\* then with the road (a click that finds nothing notifies nobody); and the
\* latest notification is the selected road.
C29_SelectionConsistent ==
    /\ selector.selectedEntity # 0 =>
           /\ selector.selectedRoad # Absent
           /\ selector.entities[selector.selectedEntity].roadId
                  = Present(selector.selectedRoad[1].id)
    /\ Cardinality(Highlighted) <= 1
    /\ Highlighted \subseteq {selector.selectedEntity}
    /\ (selector.selectedRoad # Absent /\ selector.notified # <<>>) =>
           selector.notified = <<Absent, selector.selectedRoad>>
    /\ selector.last # Absent => selector.last[1] = selector.selectedRoad
    /\ selector.last = Absent => selector.selectedRoad = Absent

\* road B is selected and highlighted by a click on the ellipsoid, and the
\* polyline of A, selected before, has its width and traffic colour back
C29_Witness ==
    /\ ret.op = "handleClick"
    /\ ret.picked = 0
    /\ selector.selectedRoad = Present(roads[OsmId(2)])
    /\ Highlighted = {selector.selectedEntity}
    /\ \E i \in 1..Len(selector.entities) :
           /\ selector.entities[i].roadId = Present(OsmId(1))
           /\ selector.entities[i].polyline
                  = Present([width |-> 8, glowPower |-> 4, color |-> "RED"])

\* ------------------------------------------------------------ C30
\* the invocations of updatePavementCondition that have not returned
InFlight == {i \in 1..Len(pavement.requests) : pavement.requests[i].stage # "done"}

\* C30: while an analysis is in flight the loading indicator is visible;
\* when all have finished it is hidden and the PCI displayed is the result
\* for the location requested last, whatever the order of the answers.
C30_OverlappingAnalyses ==
    /\ InFlight # {} => pavement.loading = "flex"
    /\ (InFlight = {} /\ pavement.requests # <<>>) =>
           /\ pavement.loading = "none"
           /\ pavement.pciValue # Absent
           /\ pavement.pciValue[1].location
                  = pavement.requests[Len(pavement.requests)].location

====
